---- MODULE Spec2Model ----
(***************************************************************************)
(* The Wordle solver of Wordler.py: the guess log kept in the Streamlit    *)
(* session (st.session_state.guesses), the candidate filter and the        *)
(* suggestion ranker that every run of the script recomputes from the log  *)
(* and the word list.                                                      *)
(*                                                                         *)
(* A word is a sequence of one-letter strings.  A weight is kept in        *)
(* thousandths (1.0 is 1000, 0.02 is 20) and a Final Score in hundredths,  *)
(* so that round(raw_score * weight, 2) is integer arithmetic.             *)
(***************************************************************************)
EXTENDS Integers, Sequences, FiniteSets, TLC

VARIABLES
    words_file,      \* word_list.csv on disk
    words_df,        \* the rows of word_list.csv as loaded: [Word, Weight]
    guesses,         \* st.session_state.guesses
    solver_input,    \* st.session_state.solver_input (the text box)
    possible_words,  \* the script's possible_words after the filter
    ranked_df,       \* the script's ranked_df (<<>> when nothing is ranked)
    event,           \* what the last run of a script handled
    cleared,         \* how many guesses the last run removed from the log
    runs,            \* the runs of the script in other browser sessions
    scores_file      \* Scores.csv on disk

vars == <<words_file, words_df, guesses, solver_input, possible_words, ranked_df, event,
          cleared, runs, scores_file>>

-----------------------------------------------------------------------------
(* Bounds and inputs *)

MaxGuesses == 2      \* longest guess log explored

WordLen == 5         \* len(guess_input) == 5
DefaultWeight == 1000   \* words_df['Weight'] = 1.0
MissingWeight == 20     \* word_weights.get(w, 0.02)
UsedWeight == 20        \* 'Weight'] = 0.02 (Auto-Fetch, Save Manual)
ArchiveWeight == 10     \* 'Weight'] = 0.01 (update_weights.py)

\* str.upper() on the letters of the model
Upper(c) ==
    CASE c = "a" -> "A"
      [] c = "b" -> "B"
      [] c = "c" -> "C"
      [] c = "y" -> "Y"
      [] OTHER -> c

upper(s) == [i \in 1..Len(s) |-> Upper(s[i])]

RECURSIVE lstrip(_)
lstrip(s) == IF s # <<>> /\ Head(s) = " " THEN lstrip(Tail(s)) ELSE s

RECURSIVE rstrip(_)
rstrip(s) ==
    IF s # <<>> /\ s[Len(s)] = " " THEN rstrip(SubSeq(s, 1, Len(s) - 1)) ELSE s

\* str.strip()
strip(s) == rstrip(lstrip(s))

\* The select box options and the status text the script stores for each
full_text(color) ==
    IF color = "black" THEN "Grey"
    ELSE IF color = "yellow" THEN "Yellow"
    ELSE "Green"

Colors == {"black", "yellow", "green"}

\* Texts the user types into the guess box (max_chars = 5)
GuessTexts ==
    { <<"a", "y", "a", "Y", "X">>,
      <<"X", "B", "Y", "B", "X">>,
      <<"C", "A", "A", "B">> }

AllBlack == [i \in 1..WordLen |-> "black"]

\* The colours chosen in the five select boxes of a typed word: every box on
\* its default, one box moved off it, or the first and the third box yellow
Selections ==
    {[AllBlack EXCEPT ![i] = c] : i \in 1..WordLen, c \in Colors}
        \cup {[AllBlack EXCEPT ![1] = "yellow", ![3] = "yellow"]}

\* word_list.csv as found on disk: with a Weight column, or with words only
WordFiles ==
    { << [Word |-> <<"C", "A", "A", "B">>,      Weight |-> 1000],
         [Word |-> <<"c", "c", "a", "a", "b">>, Weight |-> 500],
         [Word |-> <<"A", "C", "C", "B", "C">>, Weight |-> 125],
         [Word |-> <<"D", "C", "D", "D", "A">>, Weight |-> 2],
         [Word |-> <<"B", "C", "B", "B", "A">>, Weight |-> 2],
         [Word |-> <<"C", "A", "A", "D", "C">>, Weight |-> 18] >>,
      << [Word |-> <<"B", "A", "D", "A", "A">>],
         [Word |-> <<"D", "A", "B", "C", "B">>],
         [Word |-> <<"A", "B", "D", "A", "C">>],
         [Word |-> <<"C", "Y", "B", "A", "D">>] >> }

\* The colours of the guesses made while the word list is being updated: the
\* five select boxes are left on their default
AdminSelections == {AllBlack}

\* Texts the user types into the Winning Word box
AdminTexts ==
    { <<"c", "c", "a", "a", "b">>,
      <<"B", "A", "D", "A", "A">>,
      <<>> }

\* What fetch_todays_wordle() returns: the solution in upper case, or
\* nothing (<<>>) when the NYT cannot be reached
FetchedWords ==
    { <<"A", "C", "C", "B", "C">>,
      <<"D", "A", "B", "C", "B">>,
      <<>> }

\* The Word column of the archive table, as update_weights.py finds it on
\* two days
Archives ==
    { << <<"C", "C", "A", "A", "B">> >>,
      << <<"C", "C", "A", "A", "B">>, <<"B", "A", "D", "A", "A">> >> }

\* The other browser sessions, and a session that has no run under way
Sessions == {1, 2}
NoRun == [pc |-> "idle", df |-> <<>>, word |-> <<>>, result |-> "none"]

\* Scores.csv: a Date column and one column for each player.  A cell is <<>>
\* when it is empty (read as NaN) and <<n>> when it holds the score n.  A
\* date is a sequence of pieces of text, " " a blank.
Players == {"P1", "P2"}
NaN == <<>>
ScoresFile ==
    << [Date |-> <<"2024-01-05", " ">>, P1 |-> <<3>>, P2 |-> NaN],
       [Date |-> <<"2024-01-06">>,      P1 |-> NaN,   P2 |-> <<5>>] >>

\* input_date.strftime("%Y-%m-%d") for the dates picked in the date box
DateInputs == { <<"2024-01-05">>, <<"2024-01-06">>, <<"2024-01-07">> }

\* values of the Score box (min_value=1, max_value=7)
ScoreInputs == {1, 7}

-----------------------------------------------------------------------------
(* Loading the word list *)

\* if 'Weight' not in words_df.columns: words_df['Weight'] = 1.0
read_csv(file) ==
    [i \in 1..Len(file) |->
        IF "Weight" \in DOMAIN file[i] THEN file[i]
        ELSE [Word |-> file[i].Word, Weight |-> DefaultWeight]]

\* all_words losing the first row of the file
all_words_skipFirst(df) == [i \in 1..(Len(df) - 1) |-> upper(df[i + 1].Word)]

\* words_df['Word'].astype(str).str.upper().tolist()
all_words(df) == [i \in 1..Len(df) |-> upper(df[i].Word)]

\* dict(zip(words, weights)): the last row of a word wins
word_weights(df) ==
    [w \in {upper(df[i].Word) : i \in 1..Len(df)} |->
        LET last == CHOOSE i \in 1..Len(df) :
                        /\ upper(df[i].Word) = w
                        /\ \A j \in 1..Len(df) : upper(df[j].Word) = w => j <= i
        IN df[last].Weight]

-----------------------------------------------------------------------------
(* The candidate filter *)

Min(a, b) == IF a < b THEN a ELSE b

\* zip(word, feedback): the positions both have
Zipped(entry) == 1..Min(Len(entry.word), Len(entry.feedback))

\* Confirmed taking a green mark alone as evidence
Confirmed_greenOnly(status) == status = "Green"

Confirmed(status) == status = "Green" \/ status = "Yellow"

\* the letters of one guess marked green or yellow
local_confirmed_present(entry) ==
    {entry.word[i] : i \in {j \in Zipped(entry) : Confirmed(entry.feedback[j])}}

\* the letters marked green or yellow in any guess of the log
global_confirmed_present(log) ==
    UNION {local_confirmed_present(log[k]) : k \in 1..Len(log)}

Contains(w, char) == \E p \in 1..Len(w) : w[p] = char

\* FilterLetter whose yellow branch does not ask for the letter in the word
FilterLetter_yellowNotAtOnly(pw, i, char, status, gcp, lcp) ==
    LET green(w)  == Len(w) >= i /\ w[i] = char
        notAt(w)  == Len(w) >= i /\ w[i] # char
        nowhere(w) == ~(\E p \in 1..Len(w) : w[p] = char)
    IN  IF status = "Green" THEN SelectSeq(pw, green)
        ELSE IF status = "Yellow" THEN SelectSeq(pw, notAt)
        ELSE IF status = "Grey" THEN
            IF char \in gcp \/ char \in lcp THEN SelectSeq(pw, notAt)
            ELSE SelectSeq(pw, nowhere)
        ELSE pw

RECURSIVE RemoveInPlace(_, _, _)
\* for w in pw: if w in bad: pw.remove(w) -- the list shrinks under the loop,
\* so the word after a removed one is never visited
RemoveInPlace(pw, bad, idx) ==
    IF idx > Len(pw) THEN pw
    ELSE IF pw[idx] \in bad
         THEN LET first == CHOOSE j \in 1..idx :
                              pw[j] = pw[idx] /\ \A n \in 1..(j - 1) : pw[n] # pw[idx]
              IN RemoveInPlace(SubSeq(pw, 1, first - 1) \o SubSeq(pw, first + 1, Len(pw)),
                               bad, idx + 1)
         ELSE RemoveInPlace(pw, bad, idx + 1)

\* FilterLetter removing the failing words from the list it is looping over
FilterLetter_removeInPlace(pw, i, char, status, gcp, lcp) ==
    LET green(w)  == Len(w) >= i /\ w[i] = char
        yellow(w) == (\E p \in 1..Len(w) : w[p] = char) /\ (Len(w) >= i /\ w[i] # char)
        notAt(w)  == Len(w) >= i /\ w[i] # char
        nowhere(w) == ~(\E p \in 1..Len(w) : w[p] = char)
        keep(w) == IF status = "Green" THEN green(w)
                   ELSE IF status = "Yellow" THEN yellow(w)
                   ELSE IF status = "Grey" THEN
                       IF char \in gcp \/ char \in lcp THEN notAt(w) ELSE nowhere(w)
                   ELSE TRUE
    IN  RemoveInPlace(pw, {pw[j] : j \in {n \in 1..Len(pw) : ~keep(pw[n])}}, 1)

\* FilterLetter whose grey branch removes every word that holds the letter,
\* whatever the log says of the letter
FilterLetter_greyAlwaysGlobal(pw, i, char, status, gcp, lcp) ==
    LET green(w)  == Len(w) >= i /\ w[i] = char
        yellow(w) == (\E p \in 1..Len(w) : w[p] = char) /\ (Len(w) >= i /\ w[i] # char)
        nowhere(w) == ~(\E p \in 1..Len(w) : w[p] = char)
    IN  IF status = "Green" THEN SelectSeq(pw, green)
        ELSE IF status = "Yellow" THEN SelectSeq(pw, yellow)
        ELSE IF status = "Grey" THEN SelectSeq(pw, nowhere)
        ELSE pw

\* FilterLetter whose yellow branch asks for the letter in the word and
\* nothing of the position
FilterLetter_yellowAnywhere(pw, i, char, status, gcp, lcp) ==
    LET green(w)  == Len(w) >= i /\ w[i] = char
        yellow(w) == \E p \in 1..Len(w) : w[p] = char
        notAt(w)  == Len(w) >= i /\ w[i] # char
        nowhere(w) == ~(\E p \in 1..Len(w) : w[p] = char)
    IN  IF status = "Green" THEN SelectSeq(pw, green)
        ELSE IF status = "Yellow" THEN SelectSeq(pw, yellow)
        ELSE IF status = "Grey" THEN
            IF char \in gcp \/ char \in lcp THEN SelectSeq(pw, notAt)
            ELSE SelectSeq(pw, nowhere)
        ELSE pw

\* one letter of one guess applied to the list (i counts from 1)
FilterLetter(pw, i, char, status, gcp, lcp) ==
    LET green(w)  == Len(w) >= i /\ w[i] = char
        yellow(w) == Contains(w, char) /\ (Len(w) >= i /\ w[i] # char)
        notAt(w)  == Len(w) >= i /\ w[i] # char
        nowhere(w) == ~Contains(w, char)
    IN  IF status = "Green" THEN SelectSeq(pw, green)
        ELSE IF status = "Yellow" THEN SelectSeq(pw, yellow)
        ELSE IF status = "Grey" THEN
            IF char \in gcp \/ char \in lcp THEN SelectSeq(pw, notAt)
            ELSE SelectSeq(pw, nowhere)
        ELSE pw

RECURSIVE FilterEntry(_, _, _, _, _)
\* the inner loop, from letter i of the guess on
FilterEntry(pw, entry, gcp, lcp, i) ==
    IF i \notin Zipped(entry) THEN pw
    ELSE FilterEntry(
            FilterLetter(pw, i, entry.word[i], entry.feedback[i], gcp, lcp),
            entry, gcp, lcp, i + 1)

RECURSIVE FilterFrom_priorOnly(_, _, _, _)
\* FilterFrom reading the evidence of guesses 1..k only, not of the whole log
FilterFrom_priorOnly(pw, log, gcp, k) ==
    IF k > Len(log) THEN pw
    ELSE FilterFrom_priorOnly(
            FilterEntry(pw, log[k], global_confirmed_present(SubSeq(log, 1, k)),
                        local_confirmed_present(log[k]), 1),
            log, gcp, k + 1)

RECURSIVE FilterFrom(_, _, _, _)
\* the outer loop, from guess k of the log on
FilterFrom(pw, log, gcp, k) ==
    IF k > Len(log) THEN pw
    ELSE FilterFrom(
            FilterEntry(pw, log[k], gcp, local_confirmed_present(log[k]), 1),
            log, gcp, k + 1)

\* Filter applying the last guess of the log alone
Filter_lastOnly(words, log) ==
    FilterFrom(words, log, global_confirmed_present(log),
               IF Len(log) > 1 THEN Len(log) ELSE 1)

\* possible_words for a word list and a guess log
Filter(words, log) ==
    FilterFrom(words, log, global_confirmed_present(log), 1)

-----------------------------------------------------------------------------
(* The ranker *)

RECURSIVE CountIn(_, _)
\* the occurrences of char in the word w
CountIn(w, char) ==
    IF w = <<>> THEN 0
    ELSE (IF Head(w) = char THEN 1 ELSE 0) + CountIn(Tail(w), char)

RECURSIVE CountAll(_, _)
CountAll(pw, char) ==
    IF pw = <<>> THEN 0
    ELSE CountIn(Head(pw), char) + CountAll(Tail(pw), char)

\* set(w)
CharSet(w) == {w[p] : p \in 1..Len(w)}

\* Counter("".join(possible_words))
letter_counts(pw) ==
    [char \in UNION {CharSet(pw[j]) : j \in 1..Len(pw)} |-> CountAll(pw, char)]

RECURSIVE SumOver(_, _)
SumOver(chars, counts) ==
    IF chars = {} THEN 0
    ELSE LET c == CHOOSE x \in chars : TRUE
         IN (IF c \in DOMAIN counts THEN counts[c] ELSE 0)
                + SumOver(chars \ {c}, counts)

RECURSIVE raw_score_perLetter(_, _)
\* raw_score adding the count of every letter of w, repeated or not
raw_score_perLetter(w, counts) ==
    IF w = <<>> THEN 0
    ELSE (IF Head(w) \in DOMAIN counts THEN counts[Head(w)] ELSE 0)
            + raw_score_perLetter(Tail(w), counts)

\* sum(letter_counts[char] for char in set(w))
raw_score(w, counts) == SumOver(CharSet(w), counts)

\* round2 cutting the digits off
round2_truncate(n) == n \div 10

\* round(raw_score * weight, 2): n is the product in thousandths, the result
\* is in hundredths, a tie going to the even neighbour
round2(n) ==
    LET q == n \div 10
        r == n % 10
    IN  IF r < 5 THEN q
        ELSE IF r > 5 THEN q + 1
        ELSE IF q % 2 = 0 THEN q ELSE q + 1

\* word_weights.get(w, 0.02)
weight_of(w, weights) ==
    IF w \in DOMAIN weights THEN weights[w] ELSE MissingWeight

\* one dict of ranked_data
ranked_row(w, counts, weights) ==
    LET raw == raw_score(w, counts)
        weight == weight_of(w, weights)
    IN  [Word |-> w,
         RawScore |-> raw,
         Weight |-> weight,
         FinalScore |-> round2(raw * weight),
         Type |-> IF weight = DefaultWeight THEN "Original" ELSE "Expanded"]

\* Before comparing the Final Score alone
Before_finalOnly(a, b) == a.FinalScore > b.FinalScore

\* row a is placed before row b by sort_values(["Final Score", "Raw Score"],
\* ascending=False)
Before(a, b) ==
    \/ a.FinalScore > b.FinalScore
    \/ a.FinalScore = b.FinalScore /\ a.RawScore > b.RawScore

RECURSIVE Insert(_, _)
\* row into a sorted sequence, after the rows it does not come before
Insert(row, sorted) ==
    IF sorted = <<>> THEN <<row>>
    ELSE IF Before(row, Head(sorted)) THEN <<row>> \o sorted
    ELSE <<Head(sorted)>> \o Insert(row, Tail(sorted))

RECURSIVE sort_values(_)
sort_values(rows) ==
    IF rows = <<>> THEN <<>>
    ELSE Insert(rows[Len(rows)], sort_values(SubSeq(rows, 1, Len(rows) - 1)))

\* ranked_df, or <<>> on the branch that ranks nothing
Ranked(pw, df) ==
    IF pw # <<>>
    THEN LET counts == letter_counts(pw)
             weights == word_weights(df)
         IN  sort_values([j \in 1..Len(pw) |-> ranked_row(pw[j], counts, weights)])
    ELSE <<>>

-----------------------------------------------------------------------------
(* One run of the script per user interaction *)

\* guess_input and len(guess_input) == 5: the colour boxes and the
\* Apply Logic button are on the page
Valid(text) == upper(text) # <<>> /\ Len(upper(text)) = WordLen

\* the entry Apply Logic appends for the typed text and the chosen colours
Entry(text, sel) ==
    [word |-> upper(text),
     feedback |-> [i \in 1..Len(upper(text)) |-> full_text(sel[i])]]

\* append_guess without the test of the typed text
append_guess_unchecked(log, text, sel) == Append(log, Entry(text, sel))

\* append_guess putting the new entry in front of the log
append_guess_atFront(log, text, sel) ==
    IF Valid(text) THEN <<Entry(text, sel)>> \o log ELSE log

\* st.session_state.guesses after a run whose widgets hold text and sel and in
\* which Apply Logic, if it is on the page, was clicked
append_guess(log, text, sel) ==
    IF Valid(text) THEN Append(log, Entry(text, sel)) ELSE log

\* reset_solver leaving the guesses in place
reset_solver_keep(log) == log

\* reset_solver()
reset_solver(log) == <<>>

\* the right column: possible_words and ranked_df of this run
Render(log) ==
    /\ possible_words' = Filter(all_words(words_df'), log)
    /\ ranked_df' = Ranked(possible_words', words_df')

\* Load writing the frame, with the Weight column it added, back to the file
Load_writesBack ==
    /\ words_file' = read_csv(words_file)
    /\ words_df' = read_csv(words_file')

\* every run reads word_list.csv again
Load ==
    /\ words_file' = words_file
    /\ words_df' = read_csv(words_file')

Init ==
    /\ words_file \in WordFiles
    /\ words_df = read_csv(words_file)
    /\ guesses = <<>>
    /\ solver_input = <<>>
    /\ possible_words = Filter(all_words(words_df), guesses)
    /\ ranked_df = Ranked(possible_words, words_df)
    /\ event = "load"
    /\ cleared = 0
    /\ runs = [s \in Sessions |-> NoRun]
    /\ scores_file = ScoresFile

\* the user commits a text in the guess box
TypeGuess(text) ==
    /\ text # solver_input
    /\ Load
    /\ solver_input' = text
    /\ guesses' = guesses
    /\ Render(guesses')
    /\ event' = "type"
    /\ cleared' = 0
    /\ UNCHANGED <<runs, scores_file>>

\* a run of the script in which the guess box holds text, the colour boxes
\* hold sel and Apply Logic is clicked
Submit(text, sel) ==
    /\ Len(guesses) < MaxGuesses
    /\ Load
    /\ solver_input' = text
    /\ guesses' = append_guess(guesses, text, sel)
    /\ Render(guesses')
    /\ event' = IF Valid(text) THEN "apply" ELSE "rejected"
    /\ cleared' = 0
    /\ UNCHANGED <<runs, scores_file>>

\* ApplyLogic with the button shown only while candidates are left
ApplyLogic_needsCandidates(text, sel) ==
    /\ possible_words # <<>>
    /\ Valid(solver_input)
    /\ text # solver_input => sel = AllBlack
    /\ Submit(text, sel)

\* the user clicks Apply Logic, shown by the last run; an edit of the text
\* not yet committed reaches the script in the same run, with fresh colour
\* boxes (their keys carry the text)
ApplyLogic(text, sel) ==
    /\ Valid(solver_input)
    /\ text # solver_input => sel = AllBlack
    /\ Submit(text, sel)

\* the user clicks Reset or Reset Solver: the callback, then the run
Reset ==
    /\ Load
    /\ guesses' = reset_solver(guesses)
    /\ solver_input' = <<>>
    /\ Render(guesses')
    /\ event' = "reset"
    /\ cleared' = Len(guesses) - Len(guesses')
    /\ UNCHANGED <<runs, scores_file>>

Next ==
    \/ \E text \in GuessTexts : TypeGuess(text)
    \/ \E text \in GuessTexts : \E sel \in Selections : ApplyLogic(text, sel)
    \/ Reset

Spec == Init /\ [][Next]_vars

\* The solver alone: the user types a five-letter word, sets the colours and
\* clicks Apply Logic, guess after guess
SubmitGuess ==
    \E text \in GuessTexts : \E sel \in Selections :
        Valid(text) /\ Submit(text, sel)

SpecSolver == Init /\ [][SubmitGuess]_vars

-----------------------------------------------------------------------------
(* Marking a word used: the Admin expander and update_weights.py *)

\* df.to_csv(filename, index=False) in its try block: the file holds the
\* frame, or is left as it was when the write is refused
save_dataframe_safely(df, file, ok) == IF ok THEN df ELSE file

\* df.loc[df['Word'].astype(str).str.upper() == word, 'Weight'] = weight
set_weight(df, word, weight) ==
    [j \in 1..Len(df) |->
        IF upper(df[j].Word) = word THEN [df[j] EXCEPT !.Weight = weight]
        ELSE df[j]]

InList(word, df) == \E j \in 1..Len(df) : all_words(df)[j] = word

\* A run of the script in which a button of the expander is clicked and gives
\* word (<<>>: no word).  A successful save ends in st.rerun(), the run that
\* reads the new file; otherwise the run goes on with the word_weights and
\* all_words it computed when it started.
MarkUsed(word, ok, saved, failed, missing, none) ==
    LET df == read_csv(words_file)
        marked == set_weight(df, word, UsedWeight)
    IN  /\ words_file' = IF word # <<>> /\ InList(word, df)
                         THEN save_dataframe_safely(marked, words_file, ok)
                         ELSE words_file
        /\ words_df' = IF word # <<>> /\ InList(word, df)
                       THEN (IF ok THEN read_csv(words_file') ELSE marked)
                       ELSE df
        /\ guesses' = guesses
        /\ solver_input' = solver_input
        /\ possible_words' = Filter(all_words(read_csv(words_file')), guesses')
        /\ ranked_df' = Ranked(possible_words', read_csv(words_file'))
        /\ event' = IF word = <<>> THEN none
                    ELSE IF ~InList(word, df) THEN missing
                    ELSE IF ok THEN saved ELSE failed
        /\ cleared' = 0
        /\ UNCHANGED <<runs, scores_file>>

\* the user clicks Save Manual with text in the Winning Word box
SaveManual(text, ok) ==
    MarkUsed(strip(upper(text)), ok, "marked", "mark_failed", "not_in_list", "no_word")

\* the user clicks Auto-Fetch Today's NYT Answer & Update
AutoFetch(fetched_word, ok) ==
    MarkUsed(fetched_word, ok, "fetched", "fetch_save_failed", "fetched_not_in_list",
             "fetch_failed")

\* update_weights.py, run beside the app: every word of the list that the
\* archive holds gets the archive weight, and the file is written
ArchiveUpdate(past_words) ==
    LET my_words_df == read_csv(words_file)
        mask == {j \in 1..Len(my_words_df) :
                    \E n \in 1..Len(past_words) : upper(my_words_df[j].Word) = past_words[n]}
    IN  /\ words_file' = [j \in 1..Len(my_words_df) |->
                             IF j \in mask
                             THEN [my_words_df[j] EXCEPT !.Weight = ArchiveWeight]
                             ELSE my_words_df[j]]
        /\ event' = "archive"
        /\ cleared' = 0
        /\ UNCHANGED <<words_df, guesses, solver_input, possible_words, ranked_df,
                       runs, scores_file>>

\* The Solver tab with its Admin expander, and update_weights.py beside it
NextAdmin ==
    \/ \E text \in GuessTexts : TypeGuess(text)
    \/ \E text \in GuessTexts : \E sel \in AdminSelections : ApplyLogic(text, sel)
    \/ Reset
    \/ \E text \in AdminTexts : \E ok \in BOOLEAN : SaveManual(text, ok)
    \/ \E fetched_word \in FetchedWords : \E ok \in BOOLEAN : AutoFetch(fetched_word, ok)
    \/ \E past_words \in Archives : ArchiveUpdate(past_words)

SpecAdmin == Init /\ [][NextAdmin]_vars

-----------------------------------------------------------------------------
(* Two browser sessions marking words used at the same time *)

\* session s starts a run of the script in which a button of the expander is
\* clicked and gives word: the run reads word_list.csv
RunLoad(s, word) ==
    /\ runs[s].pc = "idle"
    /\ runs' = [runs EXCEPT ![s] = [pc |-> "loaded", df |-> read_csv(words_file),
                                    word |-> word, result |-> "none"]]
    /\ UNCHANGED <<words_file, words_df, guesses, solver_input, possible_words,
                   ranked_df, event, cleared, scores_file>>

\* the run of session s reaches the button: it sets the weight in the frame
\* it read and writes the frame to word_list.csv
RunSave(s, ok) ==
    LET df == runs[s].df
        word == runs[s].word
        listed == word # <<>> /\ InList(word, df)
    IN  /\ runs[s].pc = "loaded"
        /\ words_file' = IF listed
                         THEN save_dataframe_safely(set_weight(df, word, UsedWeight),
                                                    words_file, ok)
                         ELSE words_file
        /\ runs' = [runs EXCEPT ![s] =
                       [pc |-> "done", df |-> <<>>, word |-> word,
                        result |-> IF ~listed THEN "missing"
                                   ELSE IF ok THEN "saved" ELSE "failed"]]
        /\ UNCHANGED <<words_df, guesses, solver_input, possible_words,
                       ranked_df, event, cleared, scores_file>>

NextConcurrent ==
    \/ \E s \in Sessions : \E text \in AdminTexts : RunLoad(s, strip(upper(text)))
    \/ \E s \in Sessions : \E fetched_word \in FetchedWords : RunLoad(s, fetched_word)
    \/ \E s \in Sessions : \E ok \in BOOLEAN : RunSave(s, ok)

SpecConcurrent == Init /\ [][NextConcurrent]_vars

-----------------------------------------------------------------------------
(* The Scoreboard tab: Quick Score Entry *)

\* pd.read_csv(SCORES_FILE) and scores_df['Date'].astype(str).str.strip()
read_scores(file) ==
    [j \in 1..Len(file) |-> [file[j] EXCEPT !.Date = strip(file[j].Date)]]

\* pd.DataFrame([{'Date': input_date_str, selected_player: new_score}]) as a
\* row of the sheet: the other players' cells are NaN
new_row(input_date_str, selected_player, new_score) ==
    [c \in {"Date"} \cup Players |->
        IF c = "Date" THEN input_date_str
        ELSE IF c = selected_player THEN <<new_score>>
        ELSE NaN]

\* save_score without the lookup of the date
save_score_alwaysAppend(df, input_date_str, selected_player, new_score) ==
    Append(df, new_row(input_date_str, selected_player, new_score))

\* the Save button: the cell of the first row of the date, or a new row
save_score(df, input_date_str, selected_player, new_score) ==
    LET existing_row == {j \in 1..Len(df) : df[j].Date = input_date_str}
    IN  IF existing_row # {}
        THEN LET row_idx == CHOOSE j \in existing_row : \A n \in existing_row : j <= n
             IN [df EXCEPT ![row_idx][selected_player] = <<new_score>>]
        ELSE Append(df, new_row(input_date_str, selected_player, new_score))

\* a run of the script on the Scoreboard tab in which Save is clicked
SaveScore(input_date_str, selected_player, new_score, ok) ==
    /\ Load
    /\ scores_file' = save_dataframe_safely(
                          save_score(read_scores(scores_file), input_date_str,
                                     selected_player, new_score),
                          scores_file, ok)
    /\ event' = IF ok THEN "score_saved" ELSE "score_failed"
    /\ cleared' = 0
    /\ UNCHANGED <<guesses, solver_input, possible_words, ranked_df, runs>>

NextScores ==
    \E input_date_str \in DateInputs : \E selected_player \in Players :
        \E new_score \in ScoreInputs : \E ok \in BOOLEAN :
            SaveScore(input_date_str, selected_player, new_score, ok)

SpecScores == Init /\ [][NextScores]_vars

-----------------------------------------------------------------------------
(* Vocabulary of the properties *)

\* the catalog: the words of the loaded list, in upper case, in file order
CatalogWords == [j \in 1..Len(words_df) |-> upper(words_df[j].Word)]

Survivors == {possible_words[j] : j \in 1..Len(possible_words)}

Has(w, X) == \E p \in 1..Len(w) : w[p] = X
At(w, i, X) == i <= Len(w) /\ w[i] = X

\* the marks of the log: guess k, position i
Marks(log) == {<<k, i>> \in (1..Len(log)) \X (1..WordLen) :
                  i <= Len(log[k].word) /\ i <= Len(log[k].feedback)}
LetterOf(log, m) == log[m[1]].word[m[2]]
StatusOf(log, m) == log[m[1]].feedback[m[2]]
Positive(log, m) == StatusOf(log, m) \in {"Green", "Yellow"}

\* the letters marked Correct or Present in guesses 1..k of the log
EvidenceUpTo(log, k) ==
    {LetterOf(log, m) : m \in {n \in Marks(log) : n[1] <= k /\ Positive(log, n)}}

EvidenceAnywhere(log) == EvidenceUpTo(log, Len(log))

\* the letters the log excludes from the whole word: marked Absent, and
\* nowhere in the log marked Correct or Present
GloballyExcluded(log) ==
    {LetterOf(log, m) : m \in {n \in Marks(log) : StatusOf(log, n) = "Grey"}}
        \ EvidenceAnywhere(log)

\* what a Correct or Present mark asks of a word
PositiveRule(w, log, m) ==
    /\ StatusOf(log, m) = "Green" => At(w, m[2], LetterOf(log, m))
    /\ StatusOf(log, m) = "Yellow" =>
          Has(w, LetterOf(log, m)) /\ ~At(w, m[2], LetterOf(log, m))

\* what an Absent mark asks of a word, given the letters with evidence
AbsentRule(w, log, m, evidence) ==
    StatusOf(log, m) = "Grey" =>
        IF LetterOf(log, m) \in evidence
        THEN m[2] <= Len(w) /\ w[m[2]] # LetterOf(log, m)
        ELSE ~Has(w, LetterOf(log, m))

Perms(n) == {p \in [1..n -> 1..n] : \A a, b \in 1..n : p[a] = p[b] => a = b}
Permuted(log, p) == [k \in 1..Len(log) |-> log[p[k]]]

RECURSIVE IsSubseq(_, _)
\* a is b with some elements left out
IsSubseq(a, b) ==
    IF a = <<>> THEN TRUE
    ELSE IF b = <<>> THEN FALSE
    ELSE IF Head(a) = Head(b) THEN IsSubseq(Tail(a), Tail(b))
    ELSE IsSubseq(a, Tail(b))

Last(log) == log[Len(log)]
Front(log) == SubSeq(log, 1, Len(log) - 1)

-----------------------------------------------------------------------------
(* C1: appending a guess never increases the number of candidates *)

\* C1 as stated: every appended guess leaves at most as many candidates as
\* there were before it.
C1_Monotone ==
    [][event' = "apply" => Len(possible_words') <= Len(possible_words)]_vars

\* C1, amended: appending a guess never increases the number of candidates,
\* unless the guess marks Correct or Present a letter that the log so far
\* excluded from the whole word (marked Absent, with no Correct or Present
\* mark anywhere in the log so far).
C1_MonotoneUnlessRelaxed ==
    [][(/\ event' = "apply"
        /\ EvidenceUpTo(<<Last(guesses')>>, 1) \cap GloballyExcluded(guesses) = {})
          => Len(possible_words') <= Len(possible_words)]_vars

\* a second guess that relaxes nothing has narrowed the candidates
C1_Witness ==
    /\ event = "apply"
    /\ Len(guesses) = 2
    /\ EvidenceUpTo(<<Last(guesses)>>, 1) # {}
    /\ EvidenceUpTo(<<Last(guesses)>>, 1) \cap GloballyExcluded(Front(guesses)) = {}
    /\ possible_words # <<>>
    /\ Len(possible_words) < Len(Filter(CatalogWords, Front(guesses)))

-----------------------------------------------------------------------------
(* C2: the candidates do not depend on the order of the guesses *)

\* C2: every permutation of the guess log gives the candidate list the log
\* gives.
C2_OrderIndependent ==
    \A p \in Perms(Len(guesses)) :
        Filter(CatalogWords, Permuted(guesses, p)) = possible_words

\* two different guesses, the second with evidence for a letter the first
\* marks Absent, and candidates left
C2_Witness ==
    /\ Len(guesses) = 2
    /\ guesses[1] # guesses[2]
    /\ \E m \in Marks(guesses) :
          /\ m[1] = 1
          /\ StatusOf(guesses, m) = "Grey"
          /\ LetterOf(guesses, m) \notin EvidenceUpTo(guesses, 1)
          /\ LetterOf(guesses, m) \in EvidenceAnywhere(guesses)
    /\ possible_words # <<>>
    /\ Len(possible_words) < Len(CatalogWords)

-----------------------------------------------------------------------------
(* C3: the Absent rule *)

\* C3 as stated: an Absent mark excludes its letter at its position when the
\* letter is Correct or Present in the same or an earlier guess, and from the
\* whole word otherwise; later guesses are not consulted.  Every candidate
\* meets this, and a five-letter catalog word that meets it and every Correct
\* and Present mark is a candidate.
C3_AbsentPriorOnly ==
    \A j \in 1..Len(CatalogWords) :
        LET w == CatalogWords[j] IN
        /\ w \in Survivors =>
              \A m \in Marks(guesses) :
                  AbsentRule(w, guesses, m, EvidenceUpTo(guesses, m[1]))
        /\ (/\ Len(w) = WordLen
            /\ \A m \in Marks(guesses) :
                  /\ PositiveRule(w, guesses, m)
                  /\ AbsentRule(w, guesses, m, EvidenceUpTo(guesses, m[1])))
              => w \in Survivors

\* C3, amended: an Absent mark excludes its letter at its position when the
\* letter is Correct or Present in any guess of the log, earlier, same or
\* later, and from the whole word otherwise; every candidate meets this for
\* every Absent mark, and a five-letter catalog word that meets it for every
\* Absent mark and meets every Correct and Present mark is a candidate.
C3_AbsentWholeLog ==
    LET evidence == EvidenceAnywhere(guesses)
        marks == Marks(guesses)
    IN  \A j \in 1..Len(CatalogWords) :
            LET w == CatalogWords[j] IN
            /\ w \in Survivors =>
                  \A m \in marks : AbsentRule(w, guesses, m, evidence)
            /\ (/\ Len(w) = WordLen
                /\ \A m \in marks :
                      /\ PositiveRule(w, guesses, m)
                      /\ AbsentRule(w, guesses, m, evidence))
                  => w \in Survivors

\* a candidate holds a letter that the first guess marks Absent with no
\* evidence of its own and the second guess marks Correct or Present
C3_Witness ==
    /\ Len(guesses) = 2
    /\ \E m \in Marks(guesses) :
          /\ m[1] = 1
          /\ StatusOf(guesses, m) = "Grey"
          /\ LetterOf(guesses, m) \notin EvidenceUpTo(guesses, 1)
          /\ LetterOf(guesses, m) \in EvidenceAnywhere(guesses)
          /\ \E w \in Survivors : Has(w, LetterOf(guesses, m))

-----------------------------------------------------------------------------
(* C4: Correct and Present marks hold of every candidate *)

\* C4: for every mark of the log, a Correct mark's letter is at its position
\* in every candidate, and a Present mark's letter is in every candidate and
\* not at its position.
C4_PositiveEvidence ==
    \A m \in Marks(guesses) : \A w \in Survivors :
        /\ StatusOf(guesses, m) = "Green" => At(w, m[2], LetterOf(guesses, m))
        /\ StatusOf(guesses, m) = "Yellow" =>
              Has(w, LetterOf(guesses, m)) /\ ~At(w, m[2], LetterOf(guesses, m))

\* candidates are left under a log with a Correct and a Present mark
C4_Witness ==
    /\ possible_words # <<>>
    /\ \E m \in Marks(guesses) : StatusOf(guesses, m) = "Green"
    /\ \E m \in Marks(guesses) : StatusOf(guesses, m) = "Yellow"

-----------------------------------------------------------------------------
(* C5: the empty log and the order of the candidates *)

\* C5: with an empty log the candidates are the whole catalog, and under any
\* log they are the catalog with some words left out, in catalog order.
C5_SubsequenceOfCatalog ==
    /\ guesses = <<>> => possible_words = CatalogWords
    /\ IsSubseq(possible_words, CatalogWords)

\* a log has left two or more candidates and removed some
C5_Witness ==
    /\ guesses # <<>>
    /\ Len(possible_words) >= 2
    /\ Len(possible_words) < Len(CatalogWords)

-----------------------------------------------------------------------------
(* C6: reset *)

\* the words of the ranked rows, counted: one row for each copy of a word
SameWords(rows, words) ==
    /\ Len(rows) = Len(words)
    /\ \A w \in {words[j] : j \in 1..Len(words)} \cup {rows[j].Word : j \in 1..Len(rows)} :
          Cardinality({j \in 1..Len(rows) : rows[j].Word = w})
              = Cardinality({j \in 1..Len(words) : words[j] = w})

\* C6: after a reset the guess log is empty and the ranked candidates are
\* exactly the words of the catalog.
C6_ResetRestoresCatalog ==
    event = "reset" =>
        /\ guesses = <<>>
        /\ SameWords(ranked_df, CatalogWords)

\* a reset has cleared a log of accepted guesses
C6_Witness ==
    /\ event = "reset"
    /\ cleared >= 1
    /\ guesses = <<>>
    /\ ranked_df # <<>>

-----------------------------------------------------------------------------
(* C7: a text that is not five letters is never appended *)

\* C7: every entry of the log is a five-letter word with five statuses, and a
\* run of the script whose guess box holds a text that is not five letters
\* long, other than a reset, leaves the log as it was.
C7_InvalidGuessRejected ==
    [][/\ \A k \in 1..Len(guesses') :
             Len(guesses'[k].word) = 5 /\ Len(guesses'[k].feedback) = 5
       /\ (Len(solver_input') # 5 /\ event' # "reset") => guesses' = guesses]_vars

\* Apply Logic was clicked on a text that is not five letters long, with
\* guesses in the log
C7_Witness ==
    /\ event = "rejected"
    /\ Len(solver_input) # 5
    /\ guesses # <<>>

-----------------------------------------------------------------------------
(* C8: the order of the ranked rows *)

\* C8: of two consecutive ranked rows the earlier has the greater or equal
\* Final Score, and with equal Final Scores the greater or equal Raw Score.
C8_RankingOrder ==
    \A j \in 1..(Len(ranked_df) - 1) :
        /\ ranked_df[j].FinalScore >= ranked_df[j + 1].FinalScore
        /\ ranked_df[j].FinalScore = ranked_df[j + 1].FinalScore
              => ranked_df[j].RawScore >= ranked_df[j + 1].RawScore

\* two rows of equal Final Score, ordered by Raw Score against the order of
\* their words in the candidate list
C8_Witness ==
    \E j \in 1..(Len(ranked_df) - 1) :
        /\ ranked_df[j].FinalScore = ranked_df[j + 1].FinalScore
        /\ ranked_df[j].RawScore > ranked_df[j + 1].RawScore
        /\ \E a, b \in 1..Len(possible_words) :
              /\ a < b
              /\ possible_words[a] = ranked_df[j + 1].Word
              /\ possible_words[b] = ranked_df[j].Word

-----------------------------------------------------------------------------
(* C9: the Raw Score *)

\* the letter occurrences, over all the words of the list, of the letters
\* that occur in w
OccurrencesOfLettersOf(w, words) ==
    {<<j, p>> \in (1..Len(words)) \X (1..WordLen) :
        p <= Len(words[j]) /\ Has(w, words[j][p])}

\* C9: the ranked rows are the candidates, and the Raw Score of a row is the
\* number of letter occurrences, over the candidates alone, of the letters of
\* its word, each letter of the word taken once.
C9_RawScore ==
    /\ SameWords(ranked_df, possible_words)
    /\ \A j \in 1..Len(ranked_df) :
          ranked_df[j].RawScore
              = Cardinality(OccurrencesOfLettersOf(ranked_df[j].Word, possible_words))

\* a ranked word with a repeated letter, scored over fewer words than the
\* catalog holds
C9_Witness ==
    /\ guesses # <<>>
    /\ \E j \in 1..Len(ranked_df) :
          LET w == ranked_df[j].Word IN
          /\ \E p, q \in 1..Len(w) : p # q /\ w[p] = w[q]
          /\ ranked_df[j].RawScore
                # Cardinality(OccurrencesOfLettersOf(w, CatalogWords))
          /\ ranked_df[j].RawScore > Len(w)

-----------------------------------------------------------------------------
(* C10: the Weight and the Final Score *)

\* the weight the file gives the word of row j, 1.0 when it has no Weight
CatalogWeight(j) ==
    IF "Weight" \in DOMAIN words_file[j] THEN words_file[j].Weight ELSE 1000

\* C10: the Weight of a ranked row is the catalog weight of its word (1.0
\* when the file carries none), and its Final Score is the hundredth nearest
\* to Raw Score times Weight.
C10_FinalScore ==
    \A r \in 1..Len(ranked_df) :
        LET row == ranked_df[r] IN
        /\ \E j \in 1..Len(words_file) : upper(words_file[j].Word) = row.Word
        /\ \A j \in 1..Len(words_file) :
              upper(words_file[j].Word) = row.Word => row.Weight = CatalogWeight(j)
        /\ 10 * row.FinalScore - row.RawScore * row.Weight \in -5..5

\* a row whose product of Raw Score and Weight has a third decimal, rounded up
C10_Witness ==
    \E r \in 1..Len(ranked_df) :
        /\ (ranked_df[r].RawScore * ranked_df[r].Weight) % 10 > 5
        /\ 10 * ranked_df[r].FinalScore > ranked_df[r].RawScore * ranked_df[r].Weight

-----------------------------------------------------------------------------
(* C11: the filter is idempotent *)

\* C11: filtering the candidates of a log again by the same log gives the
\* same candidates: filter(filter(catalog, L), L) = filter(catalog, L).
C11_Idempotent ==
    Filter(Filter(CatalogWords, guesses), guesses) = Filter(CatalogWords, guesses)

\* a log of two guesses has removed words of the catalog and left others
C11_Witness ==
    /\ Len(guesses) = 2
    /\ Filter(CatalogWords, guesses) # <<>>
    /\ Len(Filter(CatalogWords, guesses)) < Len(CatalogWords)
    /\ \E k \in 1..2 : EvidenceUpTo(<<guesses[k]>>, 1) # {}

-----------------------------------------------------------------------------
(* C12: the solver leaves the catalog alone *)

SolverEvents == {"type", "apply", "rejected", "reset"}
MarkEvents == {"marked", "fetched", "archive"}

\* C12: a run of the script that takes a guess text, submits a guess or
\* resets, with the filtering and ranking it does, leaves word_list.csv as it
\* was and holds in memory the words and weights of the file (1.0 when the
\* file carries none); the file changes only in a step that marks words used.
C12_CatalogFrame ==
    [][/\ event' \in SolverEvents =>
             /\ words_file' = words_file
             /\ Len(words_df') = Len(words_file)
             /\ \A j \in 1..Len(words_file) :
                   /\ words_df'[j].Word = words_file[j].Word
                   /\ words_df'[j].Weight = CatalogWeight(j)
       /\ words_file' # words_file => event' \in MarkEvents]_vars

\* a guess was submitted after a word of the list was marked used, and the
\* file still holds the mark
C12_Witness ==
    /\ event = "apply"
    /\ guesses # <<>>
    /\ possible_words # <<>>
    /\ \E j \in 1..Len(words_file) :
          "Weight" \in DOMAIN words_file[j] /\ words_file[j].Weight = UsedWeight

-----------------------------------------------------------------------------
(* C13: no candidate left *)

\* C13: when the log leaves no candidate nothing is ranked (zero results);
\* the Apply Logic run that left no candidate has appended its guess to the
\* log and kept the guesses before it; and from a state with no candidate the
\* log can be reset and the list filtered anew, a text can be typed and,
\* while the guess box holds a five-letter word and the log is shorter than
\* the longest log explored, a guess can be submitted.
C13_EmptyCandidates ==
    [][/\ possible_words' = <<>> => ranked_df' = <<>>
       /\ (possible_words' = <<>> /\ event' = "apply") =>
             /\ Len(guesses') = Len(guesses) + 1
             /\ Front(guesses') = guesses
       /\ possible_words = <<>> =>
             /\ ENABLED (/\ Load
                         /\ guesses' = reset_solver(guesses)
                         /\ solver_input' = <<>>
                         /\ possible_words' = Filter(all_words(words_df'), guesses'))
             /\ ENABLED (\E text \in GuessTexts : TypeGuess(text))
             /\ (Valid(solver_input) /\ Len(guesses) < MaxGuesses) =>
                   ENABLED (\E sel \in AdminSelections : ApplyLogic(solver_input, sel))]_vars

\* a second guess was submitted in a session whose first guess had left no
\* candidate, and there is still none
C13_Witness ==
    /\ event = "apply"
    /\ Len(guesses) = 2
    /\ Filter(CatalogWords, Front(guesses)) = <<>>
    /\ possible_words = <<>>
    /\ ranked_df = <<>>

-----------------------------------------------------------------------------
(* C14: which Absent marks exclude a letter from the whole word *)

\* the log with mark m taken out: the letter stays, its status says nothing
Without(log, m) == [log EXCEPT ![m[1]].feedback[m[2]] = "None"]

NotAt(words, i, X) ==
    LET test(w) == Len(w) >= i /\ w[i] # X
    IN  SelectSeq(words, test)

\* C14: no candidate holds a letter that the log marks Absent and nowhere
\* marks Correct or Present; and an Absent mark on a letter that some guess of
\* the log, earlier, same or later, marks Correct or Present removes exactly
\* the words that hold the letter at the marked position: the candidates are
\* the candidates of the log without the mark, less those words.
C14_GlobalExclusionOnlyWithoutEvidence ==
    /\ \A X \in GloballyExcluded(guesses) : \A w \in Survivors : ~Has(w, X)
    /\ \A m \in Marks(guesses) :
          (/\ StatusOf(guesses, m) = "Grey"
           /\ LetterOf(guesses, m) \in EvidenceAnywhere(guesses))
             => possible_words
                   = NotAt(Filter(CatalogWords, Without(guesses, m)),
                           m[2], LetterOf(guesses, m))

\* the second guess marks Absent a letter that only the first guess marks
\* Correct or Present, and a candidate holds the letter at another position
C14_Witness ==
    /\ Len(guesses) = 2
    /\ \E m \in Marks(guesses) :
          /\ m[1] = 2
          /\ StatusOf(guesses, m) = "Grey"
          /\ LetterOf(guesses, m) \in EvidenceUpTo(guesses, 1)
          /\ LetterOf(guesses, m) \notin EvidenceUpTo(<<guesses[2]>>, 1)
          /\ \E w \in Survivors :
                Has(w, LetterOf(guesses, m)) /\ ~At(w, m[2], LetterOf(guesses, m))

-----------------------------------------------------------------------------
(* C15: truthful feedback keeps the target *)

\* The feedback of the official game for a guess g against a target t of the
\* same length: a letter at its place is Correct; another letter is Present
\* while the target has copies of it that no Correct mark and no Present mark
\* to its left has taken, and Absent otherwise.
Score(g, t) ==
    [i \in 1..Len(g) |->
        IF g[i] = t[i] THEN "Green"
        ELSE LET X == g[i]
                 free == Cardinality({p \in 1..Len(t) : t[p] = X /\ g[p] # X})
                 taken == Cardinality({p \in 1..(i - 1) : g[p] = X /\ t[p] # X})
             IN  IF taken < free THEN "Yellow" ELSE "Grey"]

Truthful(log, t) ==
    \A k \in 1..Len(log) : log[k].feedback = Score(log[k].word, t)

\* C15: a five-letter word of the catalog is a candidate under every log in
\* which each guess carries the feedback the official game gives that guess
\* against the word.
C15_TruthfulFeedbackKeepsTarget ==
    \A j \in 1..Len(CatalogWords) :
        (Len(CatalogWords[j]) = WordLen /\ Truthful(guesses, CatalogWords[j]))
            => CatalogWords[j] \in Survivors

\* two different guesses carry the official feedback for a catalog word that
\* holds a letter the log marks Absent, and the log has removed other words
C15_Witness ==
    /\ Len(guesses) = 2
    /\ guesses[1].word # guesses[2].word
    /\ Len(possible_words) < Len(CatalogWords)
    /\ \E j \in 1..Len(CatalogWords) :
          /\ Len(CatalogWords[j]) = WordLen
          /\ Truthful(guesses, CatalogWords[j])
          /\ \E m \in Marks(guesses) :
                /\ StatusOf(guesses, m) = "Grey"
                /\ Has(CatalogWords[j], LetterOf(guesses, m))

-----------------------------------------------------------------------------
(* C16: a letter marked Correct or Present twice in one guess *)

\* the number of times the word w holds X
Occurrences(w, X) == Cardinality({p \in 1..Len(w) : w[p] = X})

\* the positions at which guess k of the log marks X Correct or Present
PositiveMarksOf(log, k, X) ==
    {m \in Marks(log) : m[1] = k /\ LetterOf(log, m) = X /\ Positive(log, m)}

LettersOf(log, k) == {log[k].word[i] : i \in 1..Len(log[k].word)}

\* C16 as stated: when one guess marks the same letter Correct or Present at
\* k >= 2 positions, every candidate holds the letter at least k times.
C16_MinimumOccurrences ==
    \A k \in 1..Len(guesses) : \A X \in LettersOf(guesses, k) :
        Cardinality(PositiveMarksOf(guesses, k, X)) >= 2 =>
            \A w \in Survivors :
                Occurrences(w, X) >= Cardinality(PositiveMarksOf(guesses, k, X))

\* C16, amended: when one guess marks the same letter Correct or Present at
\* k >= 2 positions, every candidate holds the letter at least once, at every
\* position marked Correct and at no position marked Present; it need not
\* hold the letter k times.
C16_AtLeastOnce ==
    \A k \in 1..Len(guesses) : \A X \in LettersOf(guesses, k) :
        Cardinality(PositiveMarksOf(guesses, k, X)) >= 2 =>
            \A w \in Survivors :
                /\ Occurrences(w, X) >= 1
                /\ \A m \in PositiveMarksOf(guesses, k, X) :
                      /\ StatusOf(guesses, m) = "Green" => At(w, m[2], X)
                      /\ StatusOf(guesses, m) = "Yellow" => ~At(w, m[2], X)

\* a guess marks a letter Present at two positions and candidates are left,
\* one of them holding the letter once
C16_Witness ==
    \E k \in 1..Len(guesses) : \E X \in LettersOf(guesses, k) :
        /\ Cardinality(PositiveMarksOf(guesses, k, X)) >= 2
        /\ Len(possible_words) >= 2
        /\ \E w \in Survivors : Occurrences(w, X) = 1

-----------------------------------------------------------------------------
(* C17: two sessions marking different words used *)

\* the rows of word_list.csv that hold word carry the weight of a used word
StoredAsUsed(word) ==
    \A j \in 1..Len(words_file) :
        upper(words_file[j].Word) = word =>
            "Weight" \in DOMAIN words_file[j] /\ words_file[j].Weight = UsedWeight

\* C17: when two sessions have each loaded the list and each saved a mark on
\* a different word of it, whatever the order of their loads and saves, both
\* words have the reduced weight in word_list.csv.
C17_NoLostUpdate ==
    (/\ \A s \in Sessions : runs[s].pc = "done" /\ runs[s].result = "saved"
     /\ \A s, t \in Sessions : s # t => runs[s].word # runs[t].word)
        => \A s \in Sessions : StoredAsUsed(runs[s].word)

-----------------------------------------------------------------------------
(* C18: marking a word used only lowers its weight *)

\* C18: a step that marks words used (Save Manual, Auto-Fetch, the archive
\* update) leaves the words of the list in place and gives each a weight that
\* is at most its weight before the step, above 0 and at most 1.0.
C18_MarkOnlyLowers ==
    [][event' \in MarkEvents =>
          /\ Len(words_file') = Len(words_file)
          /\ \A j \in 1..Len(words_file) :
                /\ words_file'[j].Word = words_file[j].Word
                /\ "Weight" \in DOMAIN words_file'[j]
                /\ words_file'[j].Weight <= CatalogWeight(j)
                /\ words_file'[j].Weight > 0
                /\ words_file'[j].Weight <= DefaultWeight]_vars

-----------------------------------------------------------------------------
(* C19: how the guess log changes *)

\* C19: a step leaves the guess log as it was, or is an Apply Logic run that
\* appends one entry at the end, the typed word in upper case with its five
\* statuses, and keeps the entries before it, or is a reset that empties the
\* log; a log that holds guesses becomes empty in a reset only.
C19_LogEvolution ==
    [][/\ \/ guesses' = guesses
          \/ /\ event' = "apply"
             /\ Len(guesses') = Len(guesses) + 1
             /\ Front(guesses') = guesses
             /\ Last(guesses').word = upper(solver_input')
             /\ Len(Last(guesses').word) = WordLen
             /\ Len(Last(guesses').feedback) = WordLen
          \/ /\ event' = "reset"
             /\ guesses' = <<>>
       /\ (guesses # <<>> /\ guesses' = <<>>) => event' = "reset"]_vars

\* a word was marked used in a session whose log holds two different
\* guesses, and the log is in place
C19_Witness ==
    /\ event \in {"marked", "fetched"}
    /\ Len(guesses) = 2
    /\ guesses[1].word # guesses[2].word

-----------------------------------------------------------------------------
(* C20: one row for each date of the score sheet *)

\* the date of a row, without the blanks around it
DateOf(row) ==
    LET text(piece) == piece # " "
    IN  SelectSeq(row.Date, text)

OneRowPerDate(sheet) ==
    \A i, j \in 1..Len(sheet) : DateOf(sheet[i]) = DateOf(sheet[j]) => i = j

HasDate(sheet, d) == \E j \in 1..Len(sheet) : DateOf(sheet[j]) = d

\* row b is row a, but for the cell of player p, which holds score v
SameButCell(a, b, p, v) ==
    /\ DateOf(b) = DateOf(a)
    /\ b[p] = <<v>>
    /\ \A q \in Players \ {p} : b[q] = a[q]

SameRow(a, b) == DateOf(b) = DateOf(a) /\ \A q \in Players : b[q] = a[q]

\* C20: a successful Save(date, player, score) on a sheet with at most one
\* row for each date leaves a sheet with at most one row for each date; for a
\* date that has a row, the sheet keeps its rows and only the cell of the
\* player in the row of the date takes the score; for a new date, the sheet
\* keeps its rows and gets one more row at the end, with the date, the score
\* in the cell of the player and the other cells empty.
C20_OneRowPerDate ==
    [][(event' = "score_saved" /\ OneRowPerDate(scores_file)) =>
          /\ OneRowPerDate(scores_file')
          /\ \E d \in DateInputs : \E p \in Players : \E v \in ScoreInputs :
                IF HasDate(scores_file, d)
                THEN /\ Len(scores_file') = Len(scores_file)
                     /\ \A j \in 1..Len(scores_file) :
                           IF DateOf(scores_file[j]) = d
                           THEN SameButCell(scores_file[j], scores_file'[j], p, v)
                           ELSE SameRow(scores_file[j], scores_file'[j])
                ELSE /\ Len(scores_file') = Len(scores_file) + 1
                     /\ \A j \in 1..Len(scores_file) :
                           SameRow(scores_file[j], scores_file'[j])
                     /\ DateOf(Last(scores_file')) = d
                     /\ Last(scores_file')[p] = <<v>>
                     /\ \A q \in Players \ {p} : Last(scores_file')[q] = NaN]_vars

\* saves have overwritten cells of the first row, whose date the file held
\* with a blank after it, and have appended a row for a new date
C20_Witness ==
    /\ event = "score_saved"
    /\ Len(scores_file) = Len(ScoresFile) + 1
    /\ DateOf(scores_file[1]) = DateOf(ScoresFile[1])
    /\ scores_file[1].P1 # ScoresFile[1].P1
    /\ scores_file[1].P2 # NaN
    /\ \E q \in Players : Last(scores_file)[q] = NaN

====
